---- MODULE Spec2Model ----
(***************************************************************************)
(* Model of custom_components/powerpetdoor/switch.py: the PetDoor          *)
(* protocol object (connection manager, keepalive/refresh timers, frame    *)
(* scanner, device state machine) running on one asyncio event loop.       *)
(*                                                                         *)
(* Time is discrete; one unit stands for a fixed number of seconds.  The   *)
(* event loop is modelled by `tasks`: every coroutine handed to            *)
(* ensure_future occupies one slot until it has finished and no handle     *)
(* refers to it any more.  Each action is one callback or one task step,   *)
(* run to completion, as the single-threaded loop runs it.                 *)
(***************************************************************************)
EXTENDS Integers, Sequences, FiniteSets, TLC

VARIABLES
    now,            \* the event loop's clock
    started,        \* start() has been called (async_added_to_hass)
    msgId,          \* PetDoor.msgId
    replyMsgId,     \* PetDoor.replyMsgId
    status,         \* PetDoor.status
    last_change,    \* PetDoor.last_change (<<>> for None, else <<the time stamped>>)
    settings,       \* PetDoor.settings
    _shutdown,      \* PetDoor._shutdown
    _transport,     \* PetDoor._transport (None or the transport object)
    _keepalive,     \* PetDoor._keepalive (0 for None, else a task)
    _refresh,       \* PetDoor._refresh   (0 for None, else a task)
    _buffer,        \* PetDoor._buffer
    tasks,          \* the loop's tasks
    sock,           \* the transport object asyncio handed to connection_made
    wire,           \* the last message transport.write() accepted
    exc,            \* how the last callback or task step ended
    hist            \* observations of the run (never read by the program)

vars == <<now, started, msgId, replyMsgId, status, last_change, settings,
          _shutdown, _transport, _keepalive, _refresh, _buffer, tasks, sock,
          wire, exc, hist>>

---------------------------------------------------------------------------
(* Bounds of the model.                                                    *)

MaxTime == 4
MaxTasks == 6
MaxMsgId == 5
MaxWriteFails == 1
MaxRx == 3
MaxReplies == 2
MaxStream == 6
MaxChunk == 3
\* config.get(CONF_KEEP_ALIVE / CONF_REFRESH / CONF_RECONNECT), in time units
KeepAliveDelay == 2
RefreshDelay == 3
ReconnectDelay == 2

---------------------------------------------------------------------------
(* Values.                                                                 *)

None == "None"
COMMAND == "cmd"
CONFIG == "config"
PING == "PING"

TaskIds == 1..MaxTasks
FreeTask == [kind |-> "free", st |-> "none", wake |-> 0]
NoSock == [state |-> "none", closeCalls |-> 0]
NoWrite == [type |-> None, arg |-> None, msgId |-> 0, at |-> -1]
NoExc == [in |-> None, name |-> None]
EmptyMap == [k \in {} |-> None]

\* a after dict.update(b)
Merge(a, b) ==
    [k \in DOMAIN a \cup DOMAIN b |-> IF k \in DOMAIN b THEN b[k] ELSE a[k]]

(* Received bytes.  A unit of the stream is a brace, or a run of bytes that  *)
(* holds no brace: text(f) is the text of the JSON members f ("k":v,...),   *)
(* key(k) is the text "k": that a nested object must follow, junk is text   *)
(* that is not JSON, and 0x80 is a byte outside ASCII.                      *)
LB == [c |-> "{"]
RB == [c |-> "}"]
Text(f) == [c |-> "text", f |-> f]
Key(k) == [c |-> "key", k |-> k]
Junk == [c |-> "junk"]
NonAscii == [c |-> "0x80"]

\* JSON true / false, as json.loads returns them (True, False); JSON null is None.
JTrue == "True"
JFalse == "False"
\* Python truth of a decoded JSON scalar.
truthy(v) == v \notin {JFalse, None, ""}

\* The program state as one record, so that a handler's statements compose
\* in the order the code runs them.
Self ==
    [msgId |-> msgId, replyMsgId |-> replyMsgId, status |-> status,
     last_change |-> last_change, settings |-> settings,
     _shutdown |-> _shutdown, _transport |-> _transport,
     _keepalive |-> _keepalive, _refresh |-> _refresh, _buffer |-> _buffer,
     tasks |-> tasks, sock |-> sock, wire |-> wire, exc |-> exc, hist |-> hist]

Commit(s) ==
    /\ msgId' = s.msgId
    /\ replyMsgId' = s.replyMsgId
    /\ status' = s.status
    /\ last_change' = s.last_change
    /\ settings' = s.settings
    /\ _shutdown' = s._shutdown
    /\ _transport' = s._transport
    /\ _keepalive' = s._keepalive
    /\ _refresh' = s._refresh
    /\ _buffer' = s._buffer
    /\ tasks' = s.tasks
    /\ sock' = s.sock
    /\ wire' = s.wire
    /\ exc' = s.exc
    /\ hist' = s.hist

---------------------------------------------------------------------------
(* The event loop: asyncio.ensure_future, Task.cancel, Task.cancelled.     *)

FreeIds(s) == {i \in TaskIds : s.tasks[i].kind = "free"}
NextId(s) == CHOOSE i \in FreeIds(s) : \A j \in FreeIds(s) : i <= j

\* ensure_future(coro): the new task takes the slot NextId(s).
ensure_future(s, kind, st, wake) ==
    [s EXCEPT !.tasks[NextId(s)] = [kind |-> kind, st |-> st, wake |-> wake]]

\* Task.cancel(): a task waiting at an await gets CancelledError thrown in at
\* its next step and never runs the code after the await; the running task
\* itself only notes the request and runs on to its end.
cancel(s, id) ==
    LET st == s.tasks[id].st IN
    IF st \in {"scheduled", "sleeping", "connecting"}
    THEN [s EXCEPT !.tasks[id].st = "cancelling"]
    ELSE IF st = "running"
    THEN [s EXCEPT !.tasks[id].st = "running_cancel"]
    ELSE s

\* Task.cancelled(): true only once the task has ended by CancelledError.
cancelled(s, id) == s.tasks[id].st = "cancelled"

\* The running task t returns, or raises.
Finish(s, t, how) ==
    [s EXCEPT !.tasks[t].st =
        IF s.tasks[t].st = "running_cancel" /\ how = "done" THEN "cancelled" ELSE how]

Over == {"cancelling", "cancelled", "done", "raised"}

\* A task that will never run again and that no handle refers to is gone.
Collect(s) ==
    [s EXCEPT !.tasks = [i \in TaskIds |->
        IF s.tasks[i].st \in Over /\ i \notin {s._keepalive, s._refresh}
        THEN FreeTask ELSE s.tasks[i]]]

Raise(s, where, name) == [s EXCEPT !.exc = [in |-> where, name |-> name]]

\* The tasks of a kind that can still act.
Outstanding(kind) ==
    {i \in TaskIds : tasks[i].kind = kind /\ tasks[i].st \in {"scheduled", "sleeping", "connecting"}}

---------------------------------------------------------------------------
(* PetDoor: the connection manager.                                        *)

\* PetDoor.disconnect.  Its last statement assigns to the undefined name
\* self_ and raises NameError after the statements before it have run.
disconnect(s) ==
    LET s1 == IF s._keepalive # 0
              THEN [cancel(s, s._keepalive) EXCEPT !._keepalive = 0] ELSE s
        s2 == IF s1._refresh # 0
              THEN [cancel(s1, s1._refresh) EXCEPT !._refresh = 0] ELSE s1
        s3 == IF s2._transport # None
              THEN [s2 EXCEPT !.sock = [state |-> IF @.state = "open" THEN "closing" ELSE @.state,
                                        closeCalls |-> @.closeCalls + 1],
                              !._transport = None]
              ELSE s2
    IN  Raise(s3, "disconnect", "NameError")

\* PetDoor.reconnect up to its first await: disconnect(), then sleep(delay).
reconnect(s, t) ==
    LET d == disconnect([s EXCEPT !.hist.reconnects = @ + 1]) IN
    IF d.exc.name # None
    THEN Finish(d, t, "raised")
    ELSE [d EXCEPT !.tasks[t] = [kind |-> "reconnect", st |-> "sleeping",
                                 wake |-> now + ReconnectDelay]]

\* PetDoor.connect: the task awaits create_connection under the timeout.
connect(s, t) ==
    [s EXCEPT !.tasks[t].st = "connecting", !.hist.attempts = @ + 1]

\* connection_lost, handle_connect_failure and the except branch of
\* send_data all end the same way.
schedule_reconnect(s) ==
    IF ~s._shutdown THEN ensure_future(s, "reconnect", "scheduled", 0) ELSE s

\* PetDoor.handle_connect_failure
handle_connect_failure(s) == schedule_reconnect(s)

\* PetDoor.connection_lost
connection_lost(s) == schedule_reconnect(s)

\* send_data with the keepalive restarted after the try, whether or not the
\* write raised.
send_data_rearm_always(s, data, err) ==
    IF s._transport = None THEN s
    ELSE LET s1 == IF s._keepalive # 0 THEN cancel(s, s._keepalive) ELSE s
             s2 == [s1 EXCEPT !.hist.first = IF @ = None THEN data.arg ELSE @]
             s3 == IF ~err
                   THEN [s2 EXCEPT !.wire = [type |-> data.type, arg |-> data.arg,
                                             msgId |-> data.msgId, at |-> now],
                                   !.hist.lastCmdAt = IF data.type = PING THEN @ ELSE now,
                                   !.hist.settingsAt =
                                       IF data.arg = "GET_SETTINGS" THEN now ELSE @]
                   ELSE [schedule_reconnect(s2) EXCEPT !.hist.writeFails = @ + 1]
         IN  [ensure_future(s3, "keepalive", "sleeping", now + KeepAliveDelay)
                EXCEPT !._keepalive = NextId(s3)]

\* PetDoor.send_data.  err: transport.write() raises RuntimeError.
send_data(s, data, err) ==
    IF s._transport = None THEN s
    ELSE LET s1 == IF s._keepalive # 0 THEN cancel(s, s._keepalive) ELSE s
             s2 == [s1 EXCEPT !.hist.first = IF @ = None THEN data.arg ELSE @] IN
         IF ~err
         THEN [ensure_future(s2, "keepalive", "sleeping", now + KeepAliveDelay)
                 EXCEPT !._keepalive = NextId(s2),
                        !.wire = [type |-> data.type, arg |-> data.arg,
                                  msgId |-> data.msgId, at |-> now],
                        !.hist.lastCmdAt = IF data.type = PING THEN @ ELSE now,
                        !.hist.settingsAt = IF data.arg = "GET_SETTINGS" THEN now ELSE @]
         ELSE [schedule_reconnect(s2) EXCEPT !.hist.writeFails = @ + 1]

\* send_message drawing a new id only when there is a transport to write to.
send_message_id_on_write(s, type, arg, err) ==
    IF s._transport = None
    THEN [s EXCEPT !.hist.calls = @ + 1, !.hist.lastId = s.msgId]
    ELSE send_data([s EXCEPT !.msgId = @ + 1, !.hist.calls = @ + 1, !.hist.lastId = s.msgId],
                   [type |-> type, arg |-> arg, msgId |-> s.msgId], err)

\* PetDoor.send_message
send_message(s, type, arg, err) ==
    send_data([s EXCEPT !.msgId = @ + 1, !.hist.calls = @ + 1, !.hist.lastId = s.msgId],
              [type |-> type, arg |-> arg, msgId |-> s.msgId], err)

\* connection_made without the initial settings request.
connection_made_no_request(s, err) ==
    [ensure_future(s, "keepalive", "sleeping", now + KeepAliveDelay)
       EXCEPT !._transport = "transport",
              !._keepalive = NextId(s),
              !.sock = [state |-> "open", closeCalls |-> 0],
              !.hist.lastCmdAt = -1,
              !.hist.first = None,
              !.hist.settingsAt = -1,
              !.hist.syncAt = -1]

\* PetDoor.connection_made
connection_made(s, err) ==
    LET s1 == [ensure_future(s, "keepalive", "sleeping", now + KeepAliveDelay)
                 EXCEPT !._transport = "transport",
                        !._keepalive = NextId(s),
                        !.sock = [state |-> "open", closeCalls |-> 0],
                        !.hist.lastCmdAt = -1,
                        !.hist.first = None,
                        !.hist.settingsAt = -1,
                        !.hist.syncAt = -1]
    IN  send_message(s1, CONFIG, "GET_SETTINGS", err)

\* PetDoor.keepalive after its sleep, run by task t.
keepalive(s, t, err) ==
    IF s._keepalive = 0
    THEN Finish(Raise(s, "keepalive", "AttributeError"), t, "raised")
    ELSE IF cancelled(s, s._keepalive)
    THEN Finish(s, t, "done")
    ELSE LET s1 == send_message(s, PING, "epoch-ms", err) IN
         Finish([ensure_future(s1, "keepalive", "sleeping", now + KeepAliveDelay)
                   EXCEPT !._keepalive = NextId(s1)], t, "done")

\* PetDoor.refresh after its sleep, run by task t.
refresh(s, t, err) ==
    IF s._refresh = 0
    THEN Finish(Raise(s, "refresh", "AttributeError"), t, "raised")
    ELSE IF cancelled(s, s._refresh)
    THEN Finish(s, t, "done")
    ELSE LET s1 == send_message(s, CONFIG, "GET_SETTINGS", err) IN
         Finish([ensure_future(s1, "refresh", "sleeping", now + RefreshDelay)
                   EXCEPT !._refresh = NextId(s1)], t, "done")


---------------------------------------------------------------------------
(* The frame scanner and the decoder.                                      *)

RECURSIVE find_end_loop(_, _, _)
\* The for loop of find_end from (1-based) position i with depth parens.
find_end_loop(s, i, parens) ==
    IF i > Len(s) THEN 0
    ELSE LET p == IF s[i].c = "{" THEN parens + 1
                  ELSE IF s[i].c = "}" THEN parens - 1
                  ELSE parens
         IN  IF p = 0 THEN i ELSE find_end_loop(s, i + 1, p)

\* find_end: the length of the first block, 0 for None, -1 for IndexError.
find_end(s) ==
    IF Len(s) = 0 THEN 0
    ELSE IF s[1].c # "{" THEN -1
    ELSE find_end_loop(s, 1, 0)

JSONDecodeError == [ok |-> FALSE, val |-> EmptyMap, next |-> 0]

RECURSIVE parse_members(_, _, _)
\* The members of a JSON object from position i, up to its closing brace.
parse_members(s, i, acc) ==
    IF i > Len(s) THEN JSONDecodeError
    ELSE CASE s[i].c = "}" -> [ok |-> TRUE, val |-> acc, next |-> i + 1]
           [] s[i].c = "text" -> parse_members(s, i + 1, Merge(acc, s[i].f))
           [] s[i].c = "key" ->
                IF i + 1 <= Len(s) /\ s[i + 1].c = "{"
                THEN LET r == parse_members(s, i + 2, EmptyMap) IN
                     IF r.ok
                     THEN parse_members(s, r.next,
                              Merge(acc, [k \in {s[i].k} |-> r.val]))
                     ELSE JSONDecodeError
                ELSE JSONDecodeError
           [] OTHER -> JSONDecodeError

\* json.loads(block): the decoded object, or JSONDecodeError.
json_loads(block) ==
    IF Len(block) >= 1 /\ block[1].c = "{"
    THEN LET r == parse_members(block, 2, EmptyMap) IN
         IF r.ok /\ r.next = Len(block) + 1 THEN r ELSE JSONDecodeError
    ELSE JSONDecodeError

\* rawdata.decode('ascii') succeeds.
ascii(rawdata) == \A i \in 1..Len(rawdata) : rawdata[i].c # "0x80"

---------------------------------------------------------------------------
(* PetDoor: the device state machine.                                      *)

KeyError(s) == Raise(s, "process_message", "KeyError")
schedule_update_ha_state(s) == [s EXCEPT !.hist.notes = @ + 1]
Has(msg, k) == k \in DOMAIN msg

\* pm_status without the test that the previous status is not None.
pm_status_any_previous(s, msg) ==
    IF msg["CMD"] \in {"GET_DOOR_STATUS", "DOOR_STATUS"}
    THEN IF ~Has(msg, "door_status") THEN KeyError(s)
         ELSE LET s1 == IF s.status # msg["door_status"]
                        THEN [s EXCEPT !.last_change = <<now>>, !.hist.stamps = @ + 1]
                        ELSE s
              IN  schedule_update_ha_state([s1 EXCEPT !.status = msg["door_status"]])
    ELSE s

\* process_message, lines 291-295.
pm_status(s, msg) ==
    IF msg["CMD"] \in {"GET_DOOR_STATUS", "DOOR_STATUS"}
    THEN IF s.status # None /\ ~Has(msg, "door_status") THEN KeyError(s)
         ELSE LET s1 == IF s.status # None /\ s.status # msg["door_status"]
                        THEN [s EXCEPT !.last_change = <<now>>, !.hist.stamps = @ + 1]
                        ELSE s
              IN  IF ~Has(msg, "door_status") THEN KeyError(s1)
                  ELSE schedule_update_ha_state([s1 EXCEPT !.status = msg["door_status"]])
    ELSE s

\* process_message, lines 297-304.
pm_settings(s, msg) ==
    IF s.exc.name = None /\ msg["CMD"] = "GET_SETTINGS"
    THEN LET s1 == IF s._refresh # 0 THEN cancel(s, s._refresh) ELSE s IN
         IF ~Has(msg, "settings") THEN KeyError(s1)
         ELSE LET s2 == schedule_update_ha_state([s1 EXCEPT !.settings = msg["settings"]]) IN
              [ensure_future(s2, "refresh", "sleeping", now + RefreshDelay)
                 EXCEPT !._refresh = NextId(s2), !.hist.syncAt = now]
    ELSE s

\* pm_sensors storing the sensor flags as a new mapping instead of into
\* the cached one.
pm_sensors_replace(s, msg) ==
    IF s.exc.name = None
       /\ msg["CMD"] \in {"GET_SENSORS", "ENABLE_INSIDE", "DISABLE_INSIDE",
                          "ENABLE_OUTSIDE", "DISABLE_OUTSIDE"}
    THEN LET s1 == IF Has(msg, "inside")
                   THEN [s EXCEPT !.settings = [k \in {"inside"} |->
                            IF truthy(msg["inside"]) THEN "true" ELSE "false"]]
                   ELSE s
             s2 == IF Has(msg, "outside")
                   THEN [s1 EXCEPT !.settings = [k \in {"outside"} |->
                            IF truthy(msg["outside"]) THEN "true" ELSE "false"]]
                   ELSE s1
         IN  schedule_update_ha_state(s2)
    ELSE s

\* process_message, lines 306-311.
pm_sensors(s, msg) ==
    IF s.exc.name = None
       /\ msg["CMD"] \in {"GET_SENSORS", "ENABLE_INSIDE", "DISABLE_INSIDE",
                          "ENABLE_OUTSIDE", "DISABLE_OUTSIDE"}
    THEN LET s1 == IF Has(msg, "inside")
                   THEN [s EXCEPT !.settings = Merge(@, [k \in {"inside"} |->
                            IF truthy(msg["inside"]) THEN "true" ELSE "false"])]
                   ELSE s
             s2 == IF Has(msg, "outside")
                   THEN [s1 EXCEPT !.settings = Merge(@, [k \in {"outside"} |->
                            IF truthy(msg["outside"]) THEN "true" ELSE "false"])]
                   ELSE s1
         IN  schedule_update_ha_state(s2)
    ELSE s

\* process_message, lines 313-316.
pm_power(s, msg) ==
    IF s.exc.name = None /\ msg["CMD"] \in {"GET_POWER", "POWER_ON", "POWER_OFF"}
    THEN schedule_update_ha_state(
            IF Has(msg, "power_state")
            THEN [s EXCEPT !.settings = Merge(@, [k \in {"power_state"} |-> msg["power_state"]])]
            ELSE s)
    ELSE s

\* process_message, lines 318-321.
pm_timers(s, msg) ==
    IF s.exc.name = None
       /\ msg["CMD"] \in {"GET_TIMERS_ENABLED", "ENABLE_TIMERS", "DISABLE_TIMERS"}
    THEN schedule_update_ha_state(
            IF Has(msg, "timersEnabled")
            THEN [s EXCEPT !.settings = Merge(@, [k \in {"timersEnabled"} |-> msg["timersEnabled"]])]
            ELSE s)
    ELSE s

\* process_message without the test of the success field.
process_message_any_success(s, msg) ==
    LET s0 == IF Has(msg, "msgID") THEN [s EXCEPT !.replyMsgId = msg["msgID"]] ELSE s IN
    IF ~Has(msg, "success") \/ ~Has(msg, "CMD") THEN KeyError(s0)
    ELSE pm_timers(pm_power(pm_sensors(pm_settings(pm_status(s0, msg), msg), msg), msg), msg)

\* PetDoor.process_message
process_message(s, msg) ==
    LET s0 == IF Has(msg, "msgID") THEN [s EXCEPT !.replyMsgId = msg["msgID"]] ELSE s IN
    IF ~Has(msg, "success") THEN KeyError(s0)
    ELSE IF msg["success"] = "true"
    THEN IF ~Has(msg, "CMD") THEN KeyError(s0)
         ELSE pm_timers(pm_power(pm_sensors(pm_settings(pm_status(s0, msg), msg), msg), msg), msg)
    ELSE s0

RECURSIVE scan_stop_on_error(_)
\* The while loop left at the first block that fails to decode.
scan_stop_on_error(s) ==
    LET end == find_end(s._buffer) IN
    IF end = -1 THEN Raise(s, "find_end", "IndexError")
    ELSE IF end = 0 THEN s
    ELSE LET block == SubSeq(s._buffer, 1, end)
             s1 == [s EXCEPT !._buffer = SubSeq(@, end + 1, Len(@)),
                             !.hist.decoded = Append(@, block)]
             m == json_loads(block)
             s2 == IF m.ok THEN process_message(s1, m.val) ELSE s1
         IN  IF s2.exc.name # None \/ ~m.ok THEN s2 ELSE scan_stop_on_error(s2)

\* The scan with an if in the place of the while: the first complete block
\* is handled, the rest is left for the next call.
scan_once(s) ==
    LET end == find_end(s._buffer) IN
    IF end = -1 THEN Raise(s, "find_end", "IndexError")
    ELSE IF end = 0 THEN s
    ELSE LET block == SubSeq(s._buffer, 1, end)
             s1 == [s EXCEPT !._buffer = SubSeq(@, end + 1, Len(@)),
                             !.hist.decoded = Append(@, block)]
             m == json_loads(block)
         IN  IF m.ok THEN process_message(s1, m.val) ELSE s1

RECURSIVE scan(_)
\* The while loop of data_received: one round per complete block.
scan(s) ==
    LET end == find_end(s._buffer) IN
    IF end = -1 THEN Raise(s, "find_end", "IndexError")
    ELSE IF end = 0 THEN s
    ELSE LET block == SubSeq(s._buffer, 1, end)
             s1 == [s EXCEPT !._buffer = SubSeq(@, end + 1, Len(@)),
                             !.hist.decoded = Append(@, block)]
             m == json_loads(block)
             s2 == IF m.ok THEN process_message(s1, m.val) ELSE s1
         IN  IF s2.exc.name # None THEN s2 ELSE scan(s2)

\* PetDoor.data_received (rawdata != '' holds of every bytes object).
data_received(s, rawdata) ==
    IF ascii(rawdata)
    THEN scan([s EXCEPT !._buffer = @ \o rawdata])
    ELSE s

---------------------------------------------------------------------------
(* PetDoor: the caller-facing commands.                                    *)

config_disable_inside(s, err) == send_message(s, CONFIG, "DISABLE_INSIDE", err)
config_enable_inside(s, err) == send_message(s, CONFIG, "ENABLE_INSIDE", err)
config_disable_outside(s, err) == send_message(s, CONFIG, "DISABLE_OUTSIDE", err)
config_enable_outside(s, err) == send_message(s, CONFIG, "ENABLE_OUTSIDE", err)
config_disable_auto(s, err) == send_message(s, CONFIG, "DISABLE_TIMERS", err)
config_enable_auto(s, err) == send_message(s, CONFIG, "ENABLE_TIMERS", err)
config_power_on(s, err) == send_message(s, CONFIG, "POWER_ON", err)
config_power_off(s, err) == send_message(s, CONFIG, "POWER_OFF", err)

\* PetDoor.config_toggle_inside
config_toggle_inside(s, err) ==
    IF DOMAIN s.settings # {}
    THEN IF "inside" \notin DOMAIN s.settings
         THEN Raise(s, "config_toggle_inside", "KeyError")
         ELSE IF s.settings["inside"] = "true" THEN config_disable_inside(s, err)
         ELSE IF s.settings["inside"] = "false" THEN config_enable_inside(s, err)
         ELSE s
    ELSE s

\* PetDoor.config_toggle_outside
config_toggle_outside(s, err) ==
    IF DOMAIN s.settings # {}
    THEN IF "outside" \notin DOMAIN s.settings
         THEN Raise(s, "config_toggle_outside", "KeyError")
         ELSE IF s.settings["outside"] = "true" THEN config_disable_outside(s, err)
         ELSE IF s.settings["outside"] = "false" THEN config_enable_outside(s, err)
         ELSE s
    ELSE s

\* PetDoor.config_toggle_auto
config_toggle_auto(s, err) ==
    IF DOMAIN s.settings # {}
    THEN IF "timersEnabled" \notin DOMAIN s.settings
         THEN Raise(s, "config_toggle_auto", "KeyError")
         ELSE IF s.settings["timersEnabled"] = "true" THEN config_disable_auto(s, err)
         ELSE IF s.settings["timersEnabled"] = "false" THEN config_enable_auto(s, err)
         ELSE s
    ELSE s

\* PetDoor.config_power_toggle
config_power_toggle(s, err) ==
    IF DOMAIN s.settings # {}
    THEN IF "power_state" \notin DOMAIN s.settings
         THEN Raise(s, "config_power_toggle", "KeyError")
         ELSE IF s.settings["power_state"] = "true" THEN config_power_off(s, err)
         ELSE IF s.settings["power_state"] = "false" THEN config_power_on(s, err)
         ELSE s
    ELSE s

\* The toggle a dispatcher signal names.
toggle(s, key, err) ==
    CASE key = "inside" -> config_toggle_inside(s, err)
      [] key = "outside" -> config_toggle_outside(s, err)
      [] key = "timersEnabled" -> config_toggle_auto(s, err)
      [] OTHER -> config_power_toggle(s, err)

\* PetDoor.available
available == _transport # None /\ sock.state = "open"

\* The Connected state: the socket is up and the object holds it.
Connected == sock.state = "open" /\ _transport # None

---------------------------------------------------------------------------
(* Actions.                                                                *)

\* A handler may start two tasks and draws one msgId.
Room == Cardinality(FreeIds(Self)) >= 2 /\ msgId < MaxMsgId

\* The outcomes of transport.write() the environment may still choose.
WriteOutcomes == IF hist.writeFails < MaxWriteFails THEN {FALSE, TRUE} ELSE {FALSE}

Enter == [Self EXCEPT !.exc = NoExc, !.hist.notes = 0]

\* PetDoor.start (_ownLoop is False: the loop is Home Assistant's).
Start ==
    /\ ~started
    /\ started' = TRUE
    /\ LET t == NextId(Self) IN
       Commit(connect([ensure_future(Enter, "connect", "scheduled", 0)
                         EXCEPT !._shutdown = FALSE], t))
    /\ UNCHANGED now

\* PetDoor.stop (_ownLoop is False: only the flag is set).
Stop ==
    /\ started
    /\ ~_shutdown
    /\ Commit([Enter EXCEPT !._shutdown = TRUE, !.hist.stopConnected = Connected])
    /\ UNCHANGED <<now, started>>

\* create_connection succeeds: connection_made runs, connect() returns.
ConnectionMade(t) ==
    /\ tasks[t].st = "connecting"
    /\ Room
    /\ \E err \in WriteOutcomes :
         Commit(Collect(Finish(connection_made(Enter, err), t, "done")))
    /\ UNCHANGED <<now, started>>

\* create_connection raises or times out: the bare except of connect().
ConnectFailed(t) ==
    /\ tasks[t].st = "connecting"
    /\ Room
    /\ Commit(Collect(Finish(
            handle_connect_failure([Enter EXCEPT !.hist.failAt = now,
                                                 !.hist.failShutdown = _shutdown]),
            t, "done")))
    /\ UNCHANGED <<now, started>>

\* The first step of a reconnect task.
ReconnectRun(t) ==
    /\ tasks[t].kind = "reconnect"
    /\ tasks[t].st = "scheduled"
    /\ Commit(Collect(reconnect([Enter EXCEPT !.tasks[t].st = "running"], t)))
    /\ UNCHANGED <<now, started>>

\* A sleep ends and the task runs on.
Wake(t) ==
    /\ tasks[t].st = "sleeping"
    /\ tasks[t].wake <= now
    /\ Room
    /\ \E err \in WriteOutcomes :
         LET s == [Enter EXCEPT !.tasks[t].st = "running"] IN
         Commit(Collect(
            CASE tasks[t].kind = "keepalive" -> keepalive(s, t, err)
              [] tasks[t].kind = "refresh" -> refresh(s, t, err)
              [] OTHER -> connect(s, t)))
    /\ UNCHANGED <<now, started>>

\* A cancelled task takes its CancelledError.
CancelStep(t) ==
    /\ tasks[t].st = "cancelling"
    /\ Commit(Collect([Self EXCEPT !.tasks[t].st = "cancelled"]))
    /\ UNCHANGED <<now, started>>

\* The transport reports the end of the connection: the peer closed it, it
\* failed, or a close() asked for here has completed.
ConnectionLost ==
    /\ sock.state \in {"open", "closing"}
    /\ Room
    /\ Commit(Collect(connection_lost([Enter EXCEPT !.sock.state = "closed"])))
    /\ UNCHANGED <<now, started>>

\* A caller's command or config request (cmd_open, config_power_on, ...).
Command(type, arg) ==
    /\ started
    /\ Room
    /\ \E err \in WriteOutcomes :
         Commit(Collect(send_message(Enter, type, arg, err)))
    /\ UNCHANGED <<now, started>>

\* The transport delivers received bytes.  An exception leaving data_received
\* is asyncio's fatal error: the transport is closed.
DataReceived(rawdata) ==
    /\ sock.state = "open"
    /\ Cardinality(FreeIds(Self)) >= 2
    /\ LET s == data_received([Enter EXCEPT !.hist.rx = @ + 1,
                                            !.hist.stream = @ \o rawdata], rawdata)
       IN  Commit(Collect(IF s.exc.name # None
                          THEN [s EXCEPT !.sock.state = "closing"] ELSE s))
    /\ UNCHANGED <<now, started>>

\* A dispatcher signal runs one of the toggles.
Toggle(key) ==
    /\ started
    /\ Room
    /\ \E err \in WriteOutcomes : Commit(Collect(toggle(Enter, key, err)))
    /\ UNCHANGED <<now, started>>

\* Time passes only when the loop has nothing to run (the clock is read
\* from the call of start() on).
Tick ==
    /\ started
    /\ now < MaxTime
    /\ \A i \in TaskIds :
          /\ tasks[i].st \notin {"scheduled", "cancelling"}
          /\ tasks[i].st = "sleeping" => tasks[i].wake > now
    /\ now' = now + 1
    /\ UNCHANGED <<started, msgId, replyMsgId, status, last_change, settings,
                   _shutdown, _transport, _keepalive, _refresh, _buffer, tasks,
                   sock, wire, exc, hist>>

Init ==
    /\ now = 0
    /\ started = FALSE
    /\ msgId = 1
    /\ replyMsgId = None
    /\ status = None
    /\ last_change = <<>>
    /\ settings = EmptyMap
    /\ _shutdown = FALSE
    /\ _transport = None
    /\ _keepalive = 0
    /\ _refresh = 0
    /\ _buffer = <<>>
    /\ tasks = [i \in TaskIds |-> FreeTask]
    /\ sock = NoSock
    /\ wire = NoWrite
    /\ exc = NoExc
    /\ hist = [reconnects |-> 0, attempts |-> 0, writeFails |-> 0,
               lastCmdAt |-> -1, failAt |-> -1, failShutdown |-> FALSE,
               stopConnected |-> FALSE, notes |-> 0, stamps |-> 0, rx |-> 0, stream |-> <<>>,
               decoded |-> <<>>, first |-> None, calls |-> 0, lastId |-> 0,
               settingsAt |-> -1, syncAt |-> -1]

---------------------------------------------------------------------------
(* What the device sends.                                                  *)

Block(f) == <<LB, Text(f), RB>>

SettingsReply(success, f) ==
    <<LB, Text([success |-> success, CMD |-> "GET_SETTINGS"]), Key("settings"),
      LB, Text(f), RB, RB>>

AllSettings ==
    [inside |-> "true", outside |-> "false", power_state |-> "true",
     timersEnabled |-> "false"]

\* The replies of the connection model: the answers to GET_SETTINGS.
ConnChunks == {SettingsReply("true", AllSettings)}

\* The events of the device state machine, one block each.
MsgChunks ==
    { Block([success |-> "true", CMD |-> "DOOR_STATUS", door_status |-> "DOOR_OPEN", msgID |-> "7"]),
      Block([success |-> "true", CMD |-> "DOOR_STATUS", door_status |-> "DOOR_CLOSED"]),
      Block([success |-> "true", CMD |-> "GET_DOOR_STATUS"]),
      Block([success |-> "true", CMD |-> "GET_DOOR_STATUS", door_status |-> None]),
      Block([success |-> "false", CMD |-> "DOOR_STATUS", door_status |-> "DOOR_CLOSED"]),
      Block([success |-> "true", CMD |-> "ENABLE_INSIDE", inside |-> JTrue, door_status |-> "DOOR_CLOSED"]),
      Block([success |-> "true", CMD |-> "DISABLE_OUTSIDE", outside |-> JFalse]),
      Block([success |-> "true", CMD |-> "POWER_ON", power_state |-> "true"]),
      Block([success |-> "true", CMD |-> "DISABLE_TIMERS", timersEnabled |-> "false"]),
      Block([success |-> "false", CMD |-> "POWER_OFF", power_state |-> "false"]),
      Block([CMD |-> "DOOR_STATUS", door_status |-> "DOOR_OPEN"]),
      SettingsReply("true", AllSettings),
      SettingsReply("true", [inside |-> "false"]),
      SettingsReply("false", AllSettings) }

\* The bytes of the frame scanner's model, in every split into chunks.
FrameAlphabet ==
    {LB, RB, Junk, NonAscii,
     Text([success |-> "true", CMD |-> "DOOR_STATUS", door_status |-> "DOOR_OPEN"]),
     Text([CMD |-> "PONG"])}
FrameChunks == UNION {[1..n -> FrameAlphabet] : n \in 1..MaxChunk}

ToggleKeys == {"inside", "outside", "timersEnabled", "power_state"}

\* The command names process_message knows.
CmdNames ==
    {"GET_DOOR_STATUS", "DOOR_STATUS", "GET_SENSORS", "ENABLE_INSIDE",
     "DISABLE_INSIDE", "ENABLE_OUTSIDE", "DISABLE_OUTSIDE", "GET_POWER",
     "POWER_ON", "POWER_OFF", "GET_TIMERS_ENABLED", "ENABLE_TIMERS",
     "DISABLE_TIMERS"}

\* An event that reports an error and carries every optional field.
FailBlock(cmd) ==
    Block([success |-> "false", CMD |-> cmd, door_status |-> "DOOR_OPEN",
           inside |-> JFalse, outside |-> JTrue, power_state |-> "false",
           timersEnabled |-> "true", msgID |-> "9"])

\* The events of the error-reply model: two that succeed, and for every
\* command name one whose success field is not "true".
ErrChunks ==
    { Block([success |-> "true", CMD |-> "DOOR_STATUS", door_status |-> "DOOR_CLOSED"]),
      SettingsReply("true", AllSettings),
      SettingsReply("false", [inside |-> "false"]),
      Block([success |-> JTrue, CMD |-> "DOOR_STATUS", door_status |-> "DOOR_OPEN"]) }
    \cup {FailBlock(c) : c \in CmdNames}

\* The bytes of the epoch model: the start of a block, its end, a whole block.
EpochChunks ==
    { <<LB, Text([success |-> "true", CMD |-> "DOOR_STATUS", door_status |-> "DOOR_OPEN"])>>,
      <<RB>>,
      Block([success |-> "true", CMD |-> "DOOR_STATUS", door_status |-> "DOOR_CLOSED"]) }

\* The blocks of the decoder model: two that fail to decode and two events.
BadJunk == <<LB, Junk, RB>>
BadKey == <<LB, Key("settings"), RB>>
OpenBlock == Block([success |-> "true", CMD |-> "DOOR_STATUS", door_status |-> "DOOR_OPEN"])
ClosedBlock == Block([success |-> "true", CMD |-> "DOOR_STATUS", door_status |-> "DOOR_CLOSED"])
DecodeBlocks == {BadJunk, OpenBlock, ClosedBlock}

\* One to three whole blocks delivered at once.
DecodeChunks ==
    DecodeBlocks
    \cup {a \o b : a \in DecodeBlocks, b \in DecodeBlocks}
    \cup {a \o b \o c : a \in DecodeBlocks, b \in DecodeBlocks, c \in DecodeBlocks}
    \cup {BadKey \o OpenBlock, ClosedBlock \o BadKey \o OpenBlock}

Next ==
    \/ Start
    \/ Stop
    \/ \E t \in TaskIds : ConnectionMade(t)
    \/ \E t \in TaskIds : ConnectFailed(t)
    \/ \E t \in TaskIds : ReconnectRun(t)
    \/ \E t \in TaskIds : Wake(t)
    \/ \E t \in TaskIds : CancelStep(t)
    \/ ConnectionLost
    \/ Command(COMMAND, "OPEN")
    \/ Command(CONFIG, "GET_DOOR_STATUS")
    \/ \E c \in ConnChunks : hist.rx < MaxReplies /\ DataReceived(c)
    \/ Tick

Spec == Init /\ [][Next]_vars

\* The device state machine on one connection: events and toggles.
MsgNext ==
    \/ Start
    \/ \E t \in TaskIds : ConnectionMade(t)
    \/ \E c \in MsgChunks : hist.rx < MaxRx /\ DataReceived(c)
    \/ \E k \in ToggleKeys : Toggle(k)

MsgSpec == Init /\ [][MsgNext]_vars

\* The device state machine on one connection: events only.
StatusNext ==
    \/ Start
    \/ \E t \in TaskIds : ConnectionMade(t)
    \/ \E c \in MsgChunks : hist.rx < MaxRx /\ DataReceived(c)

StatusSpec == Init /\ [][StatusNext]_vars

\* The sending side of one connection: commands, the timers, replies to
\* the settings request, stop(), and the reconnect flow a failed write starts.
SendNext ==
    \/ Start
    \/ Stop
    \/ \E t \in TaskIds : ConnectionMade(t)
    \/ \E t \in TaskIds : ReconnectRun(t)
    \/ \E t \in TaskIds : Wake(t)
    \/ \E t \in TaskIds : CancelStep(t)
    \/ Command(COMMAND, "OPEN")
    \/ \E c \in ConnChunks : hist.rx < MaxReplies /\ DataReceived(c)
    \/ Tick

SendSpec == Init /\ [][SendNext]_vars

\* The device state machine on one connection: error replies.
ErrNext ==
    \/ Start
    \/ \E t \in TaskIds : ConnectionMade(t)
    \/ \E c \in ErrChunks : hist.rx < MaxRx /\ DataReceived(c)

ErrSpec == Init /\ [][ErrNext]_vars

\* One connection from its attempt to its loss: received bytes, the end of
\* the connection, the reconnect flow.
EpochNext ==
    \/ Start
    \/ \E t \in TaskIds : ConnectionMade(t)
    \/ \E t \in TaskIds : ConnectFailed(t)
    \/ \E c \in EpochChunks : hist.rx < MaxRx /\ DataReceived(c)
    \/ ConnectionLost
    \/ \E t \in TaskIds : ReconnectRun(t)
    \/ \E t \in TaskIds : CancelStep(t)

EpochSpec == Init /\ [][EpochNext]_vars

\* The decoder on one connection: whole blocks, some of them malformed.
DecodeNext ==
    \/ Start
    \/ \E t \in TaskIds : ConnectionMade(t)
    \/ \E c \in DecodeChunks : hist.rx < MaxReplies /\ DataReceived(c)

DecodeSpec == Init /\ [][DecodeNext]_vars

\* The receive buffer on one connection: braces, one event's text and a
\* byte outside ASCII, in every split into chunks.
PrefixAlphabet ==
    {LB, RB, NonAscii,
     Text([success |-> "true", CMD |-> "DOOR_STATUS", door_status |-> "DOOR_OPEN"])}
PrefixChunks == UNION {[1..n -> PrefixAlphabet] : n \in 1..MaxChunk}

PrefixNext ==
    \/ Start
    \/ \E t \in TaskIds : ConnectionMade(t)
    \/ \E c \in PrefixChunks :
          Len(hist.stream) + Len(c) <= MaxStream /\ DataReceived(c)

PrefixSpec == Init /\ [][PrefixNext]_vars

\* The frame scanner on one connection: a byte stream in chunks.
FrameNext ==
    \/ Start
    \/ \E t \in TaskIds : ConnectionMade(t)
    \/ \E c \in FrameChunks :
          Len(hist.stream) + Len(c) <= MaxStream /\ DataReceived(c)

FrameSpec == Init /\ [][FrameNext]_vars

---------------------------------------------------------------------------
(* Claims.                                                                 *)

Sleeping(kind) == {i \in TaskIds : tasks[i].kind = kind /\ tasks[i].st = "sleeping"}

\* C1: a reconnect flow that has begun runs to completion: after its
\* disconnect() it is waiting out the reconnect delay, or it has gone on to
\* a new connect() attempt (the first attempt is the one start() makes).
\* Stated of the runs in which every write succeeds, where each reconnect
\* comes from connection_lost or from a connect failure.
C1_ReconnectRunsToCompletion ==
    hist.writeFails = 0 =>
        hist.reconnects =
            Cardinality(Sleeping("reconnect")) + hist.attempts - (IF started THEN 1 ELSE 0)

\* C2: disconnect() called twice in succession raises no error either time
\* and leaves the end state of a single call: no keepalive handle, no
\* refresh handle, no transport, and no second close of the transport.
\* Stated of the calls made while connected, where there is all of this to
\* release.
C2_DisconnectIdempotent ==
    Connected =>
    LET once == disconnect([Self EXCEPT !.exc = NoExc])
        twice == disconnect([once EXCEPT !.exc = NoExc])
    IN  /\ once.exc.name = None
        /\ twice.exc.name = None
        /\ twice._keepalive = 0 /\ twice._refresh = 0 /\ twice._transport = None
        /\ twice._keepalive = once._keepalive
        /\ twice._refresh = once._refresh
        /\ twice._transport = once._transport
        /\ twice.sock = once.sock
        /\ once.sock.closeCalls <= 1

\* C3: keepalive suppression: a PING is never written to the transport less
\* than one keepalive interval after the last successful send of a command
\* or config message of the connection.
C3_KeepaliveSuppression ==
    (wire.type = PING /\ hist.lastCmdAt # -1) =>
        wire.at >= hist.lastCmdAt + KeepAliveDelay

\* C4: at most one outstanding keepalive task and at most one outstanding
\* refresh task in every reachable state, and none right after disconnect().
C4_OneTimerEach ==
    /\ Cardinality(Outstanding("keepalive")) <= 1
    /\ Cardinality(Outstanding("refresh")) <= 1
    /\ exc.in = "disconnect" =>
          Outstanding("keepalive") = {} /\ Outstanding("refresh") = {}

\* The braces of s[1..n]: opened minus closed.
Depth(s, n) ==
    Cardinality({i \in 1..n : s[i].c = "{"}) - Cardinality({i \in 1..n : s[i].c = "}"})

\* The places where a stream returns to depth 0.
Cuts(s) == {n \in 1..Len(s) : Depth(s, n) = 0}

\* The stream is ASCII text made of brace-balanced blocks, each starting
\* with an opening brace, and nothing else.
WellFormed(s) ==
    /\ ascii(s)
    /\ \A n \in 1..Len(s) : Depth(s, n) >= 0
    /\ Len(s) > 0 => Len(s) \in Cuts(s)
    /\ \A n \in 1..Len(s) : (n = 1 \/ n - 1 \in Cuts(s)) => s[n].c = "{"

\* The blocks of a well-formed stream, in order.
BlocksOf(s) ==
    LET ends == Cuts(s)
        nth(k) == CHOOSE n \in ends : Cardinality({m \in ends : m <= n}) = k
    IN  [k \in 1..Cardinality(ends) |->
            SubSeq(s, IF k = 1 THEN 1 ELSE nth(k - 1) + 1, nth(k))]

\* C5: frame scanning round trip: when the bytes delivered so far, in
\* whatever chunks, are a sequence of brace-balanced blocks, the blocks
\* handed to JSON decoding are exactly those blocks in order, and the
\* buffer is empty.
C5_FrameRoundTrip ==
    WellFormed(hist.stream) =>
        /\ hist.decoded = BlocksOf(hist.stream)
        /\ _buffer = <<>>

\* C6: ShuttingDown is absorbing: once stop() has been requested, no new
\* connect attempt starts and the connection manager does not enter
\* Connected.
C6_ShutdownAbsorbing ==
    [][_shutdown =>
          /\ hist.attempts' = hist.attempts
          /\ (_transport' # None => _transport # None)]_vars

\* C7: stop() issued while Connected closes the socket, releases the
\* transport handle and cancels both timers, and no PING or GET_SETTINGS is
\* written after such a stop().
C7_StopDisconnects ==
    [][/\ (~_shutdown /\ _shutdown' /\ Connected) =>
             /\ _transport' = None
             /\ sock'.state # "open"
             /\ _keepalive' = 0
             /\ _refresh' = 0
       /\ (_shutdown /\ hist.stopConnected /\ wire' # wire) =>
             wire'.type # PING /\ wire'.arg # "GET_SETTINGS"]_vars

\* C8: after a connect failure, and until a later attempt starts, the door is
\* not available and, if and only if shutdown had not been requested, a
\* reconnect is under way whose connect() is due exactly the reconnect delay
\* after the failure.
C8_ConnectFailureReconnects ==
    (hist.failAt # -1 /\ hist.attempts = 1) =>
        /\ ~available
        /\ IF hist.failShutdown
           THEN \A i \in TaskIds : tasks[i].kind # "reconnect"
           ELSE \E i \in TaskIds :
                   /\ tasks[i].kind = "reconnect"
                   /\ \/ tasks[i].st = "scheduled" /\ now = hist.failAt
                      \/ tasks[i].st = "sleeping"
                           /\ tasks[i].wake = hist.failAt + ReconnectDelay

\* PetDoor.is_on
is_on == status \notin {"DOOR_IDLE", "DOOR_CLOSED"}

\* The members a one-block event was sent with.
Sent(block) == block[2].f
DoorBlock(v) == Block([success |-> "true", CMD |-> "DOOR_STATUS", door_status |-> v])
DoorOpen == Block([success |-> "true", CMD |-> "DOOR_STATUS",
                   door_status |-> "DOOR_OPEN", msgID |-> "7"])

\* The step processes an event that is a successful (GET_)DOOR_STATUS whose
\* status differs from a previous status that is not null.
StatusChanges ==
    /\ hist'.rx # hist.rx
    /\ LET e == Sent(hist'.decoded[Len(hist'.decoded)]) IN
       /\ Has(e, "success") /\ e["success"] = "true"
       /\ Has(e, "CMD") /\ e["CMD"] \in {"GET_DOOR_STATUS", "DOOR_STATUS"}
       /\ status # None
       /\ Has(e, "door_status") /\ e["door_status"] # status

\* C9: last_change is stamped by a step if and only if the step processes a
\* successful GET_DOOR_STATUS/DOOR_STATUS whose status differs from a
\* previous non-null status; the first status received leaves it None, and
\* the events OPEN, OPEN, CLOSED stamp it exactly once.
C9_LastChangeOnTransition ==
    /\ [](/\ hist.decoded = <<DoorBlock("DOOR_CLOSED")>> =>
               status = "DOOR_CLOSED" /\ ~is_on /\ last_change = <<>>
          /\ hist.decoded = <<DoorOpen, DoorOpen, DoorBlock("DOOR_CLOSED")>> =>
               hist.stamps = 1 /\ last_change # <<>>
          /\ hist.stamps = 0 <=> last_change = <<>>)
    /\ [][IF StatusChanges
          THEN hist'.stamps = hist.stamps + 1 /\ last_change' = <<now>>
          ELSE hist'.stamps = hist.stamps /\ last_change' = last_change]_vars

C9_Witness ==
    /\ hist.decoded = <<DoorOpen, DoorOpen, DoorBlock("DOOR_CLOSED")>>
    /\ hist.stamps = 1
    /\ status = "DOOR_CLOSED"

\* The config message a toggle is to send for a cached setting.
Opposite(key, value) ==
    CASE key = "inside" -> IF value = "true" THEN "DISABLE_INSIDE" ELSE "ENABLE_INSIDE"
      [] key = "outside" -> IF value = "true" THEN "DISABLE_OUTSIDE" ELSE "ENABLE_OUTSIDE"
      [] key = "timersEnabled" -> IF value = "true" THEN "DISABLE_TIMERS" ELSE "ENABLE_TIMERS"
      [] OTHER -> IF value = "true" THEN "POWER_OFF" ELSE "POWER_ON"

\* C10: a toggle completes normally; it sends exactly one config message,
\* the opposite of the cached setting, when the setting is "true" or
\* "false", and sends nothing when the key is absent.
C10_ToggleSemantics ==
    [][\A k \in ToggleKeys :
          Toggle(k) =>
             /\ exc'.name = None
             /\ IF Has(settings, k) /\ settings[k] \in {"true", "false"}
                THEN /\ msgId' = msgId + 1
                     /\ wire' # wire =>
                           /\ wire'.type = CONFIG
                           /\ wire'.arg = Opposite(k, settings[k])
                           /\ wire'.msgId = msgId
                ELSE msgId' = msgId /\ wire' = wire]_vars

\* The step processes an event whose success field is present and not "true".
FailedEvent ==
    /\ hist'.rx # hist.rx
    /\ LET e == Sent(hist'.decoded[Len(hist'.decoded)]) IN
       Has(e, "success") /\ e["success"] # "true"

\* C11: an inbound event whose success field is not "true" changes nothing,
\* whatever its command name: status, last_change and settings stay, no task
\* is cancelled or started, no notification is issued, no exception is
\* raised and the transport stays as it was.
C11_FailedEventChangesNothing ==
    [][FailedEvent =>
          /\ status' = status
          /\ last_change' = last_change
          /\ settings' = settings
          /\ tasks' = tasks
          /\ _keepalive' = _keepalive
          /\ _refresh' = _refresh
          /\ hist'.notes = 0
          /\ exc'.name = None
          /\ sock' = sock
          /\ _transport' = _transport]_vars

C11_Witness ==
    /\ hist.decoded = <<SettingsReply("true", AllSettings), ClosedBlock,
                        FailBlock("DOOR_STATUS")>>
    /\ status = "DOOR_CLOSED"
    /\ settings = AllSettings
    /\ _refresh # 0
    /\ replyMsgId = "9"

\* The step processes a successful GET_SETTINGS reply.
SettingsReplaced ==
    /\ hist'.rx # hist.rx
    /\ LET b == hist'.decoded[Len(hist'.decoded)] IN
       /\ Len(b) = 7
       /\ Sent(b) = [success |-> "true", CMD |-> "GET_SETTINGS"]

\* C12 as stated: a key that is present in settings is still present after
\* every later step.
C12_SettingsKeysKept ==
    [][DOMAIN settings \subseteq DOMAIN settings']_vars

\* C12 as amended: a successful GET_SETTINGS reply replaces the settings
\* mapping by the reply's settings object (keys absent from it are gone);
\* every other step keeps every key that is present.
C12_SettingsReplacedOnlyByReply ==
    [][IF SettingsReplaced
       THEN settings' = hist'.decoded[Len(hist'.decoded)][5].f
       ELSE DOMAIN settings \subseteq DOMAIN settings']_vars

C12_Witness ==
    /\ hist.decoded =
          << Block([success |-> "true", CMD |-> "POWER_ON", power_state |-> "true"]),
             SettingsReply("true", [inside |-> "false"]),
             Block([success |-> "true", CMD |-> "DISABLE_OUTSIDE", outside |-> JFalse]) >>
    /\ settings = [inside |-> "false", outside |-> "false"]

\* C13: connection_made starts a keepalive timer and hands GET_SETTINGS to
\* the transport with the next msgId; when the transport accepts it, it is
\* on the wire and exactly one keepalive timer, the one the handle names, is
\* waiting out the keepalive delay.  Nothing is handed to the transport of a
\* connection before that request.
C13_SettingsRequestFirst ==
    /\ [](hist.first \in {None, "GET_SETTINGS"})
    /\ [][\A t \in TaskIds :
            ConnectionMade(t) =>
               /\ hist'.first = "GET_SETTINGS"
               /\ hist'.lastId = msgId
               /\ wire' # wire =>
                     /\ wire' = [type |-> CONFIG, arg |-> "GET_SETTINGS",
                                 msgId |-> msgId, at |-> now]
                     /\ _keepalive' # 0
                     /\ tasks'[_keepalive'] =
                           [kind |-> "keepalive", st |-> "sleeping",
                            wake |-> now + KeepAliveDelay]
                     /\ Outstanding("keepalive")' = {_keepalive'}]_vars

C13_Witness ==
    /\ Connected
    /\ hist.first = "GET_SETTINGS"
    /\ hist.writeFails = 0
    /\ wire.arg = "OPEN"
    /\ wire.msgId = 3

\* C14: the ids send_message returns are 1, 2, 3, ...: the id of the n-th
\* call is n, with or without a transport and whether or not the write
\* succeeds; every message written carries the id of its call, greater than
\* the id of every message written before.
C14_MsgIdsIncrease ==
    /\ [](/\ hist.lastId = hist.calls
          /\ msgId = hist.calls + 1
          /\ wire.msgId <= hist.lastId)
    /\ [][/\ hist'.calls \in {hist.calls, hist.calls + 1}
          /\ wire' # wire =>
                /\ hist'.calls = hist.calls + 1
                /\ wire'.msgId = hist'.lastId
                /\ wire'.msgId > wire.msgId]_vars

C14_Witness ==
    /\ hist.calls = 4
    /\ hist.writeFails = 1
    /\ wire.msgId = 4
    /\ wire.arg = "OPEN"
    /\ hist.settingsAt # -1

\* C15: the disconnect() of a reconnect flow leaves the receive buffer empty.
C15_BufferClearedByDisconnect ==
    [][hist'.reconnects # hist.reconnects => _buffer' = <<>>]_vars

\* C16: while connected, a GET_SETTINGS request is written at the latest one
\* refresh interval after the later of the last request and the last
\* processed reply, also when no reply has come.  Stated of the runs in
\* which every write succeeds and stop() is not called.
C16_RefreshKeepsRunning ==
    (Connected /\ ~_shutdown /\ hist.writeFails = 0 /\ hist.settingsAt # -1) =>
        now <= (IF hist.syncAt > hist.settingsAt THEN hist.syncAt ELSE hist.settingsAt)
                  + RefreshDelay

\* C17: a timer task writes its PING or GET_SETTINGS only while it is the
\* timer the handle names: a task that a newer timer has replaced, or that a
\* disconnect() has dropped, writes nothing.  Stated of the runs in which
\* every write succeeds and stop() is not called.
C17_ReplacedTimerWritesNothing ==
    [][\A t \in TaskIds :
          (Wake(t) /\ wire' # wire /\ ~_shutdown /\ hist.writeFails = 0) =>
             /\ tasks[t].kind = "keepalive" => _keepalive = t
             /\ tasks[t].kind = "refresh" => _refresh = t]_vars

IsDoorBlock(b) == b \in {OpenBlock, ClosedBlock}

\* C18: a block that fails to decode is dropped alone: after a call that
\* received whole blocks, every block has been taken from the buffer and
\* handed to the decoder in order, no exception has left the call, and the
\* status and the count of status changes are those of the well-formed
\* events among the blocks, in order.
C18_BadBlockDiscardedAlone ==
    LET blocks == BlocksOf(hist.stream)
        good == SelectSeq(blocks, IsDoorBlock)
    IN  /\ hist.decoded = blocks
        /\ _buffer = <<>>
        /\ exc.name = None
        /\ status = IF Len(good) = 0 THEN None
                    ELSE Sent(good[Len(good)])["door_status"]
        /\ hist.stamps =
              Cardinality({i \in 2..Len(good) :
                  Sent(good[i])["door_status"] # Sent(good[i - 1])["door_status"]})

C18_Witness ==
    /\ hist.rx = 1
    /\ hist.stream = BadJunk \o OpenBlock \o ClosedBlock
    /\ Len(hist.decoded) = 3
    /\ status = "DOOR_CLOSED"
    /\ hist.stamps = 1

Scheduled(kind) == {i \in TaskIds : tasks[i].kind = kind /\ tasks[i].st = "scheduled"}

\* C19: a write that raises in send_data is not raised to the caller of
\* send_message, which still draws the next msgId; a reconnect is scheduled
\* if and only if shutdown has not been requested; send_data cancels the
\* keepalive timer and starts a new one only when the write succeeded.
C19_WriteFailureIsConnectionLoss ==
    /\ []((_transport # None /\ FreeIds(Self) # {}) =>
            LET f == send_message(Enter, CONFIG, "GET_DOOR_STATUS", TRUE)
                k == send_message(Enter, CONFIG, "GET_DOOR_STATUS", FALSE)
                sleepers(s) == {i \in TaskIds : s.tasks[i].kind = "keepalive"
                                                /\ s.tasks[i].st = "sleeping"}
            IN  /\ f.exc.name = None
                /\ f.msgId = msgId + 1
                /\ f.hist.lastId = msgId
                /\ f.wire = wire
                /\ f._keepalive = _keepalive
                /\ sleepers(f) = sleepers(Self) \ {_keepalive}
                /\ f.tasks[NextId(Self)].kind = IF _shutdown THEN "free" ELSE "reconnect"
                /\ k._keepalive = NextId(Self)
                /\ sleepers(k) = (sleepers(Self) \ {_keepalive}) \cup {NextId(Self)}
                /\ k.tasks[NextId(Self)].wake = now + KeepAliveDelay)
    /\ [][hist'.writeFails # hist.writeFails =>
             /\ exc'.name = None
             /\ msgId' = msgId + 1
             /\ wire' = wire
             /\ Cardinality(Scheduled("reconnect")') =
                   Cardinality(Scheduled("reconnect")) + (IF _shutdown THEN 0 ELSE 1)]_vars

C19_Witness ==
    /\ hist.writeFails = 1
    /\ ~_shutdown
    /\ Scheduled("reconnect") # {}
    /\ exc.name = None
    /\ _keepalive # 0
    /\ tasks[_keepalive].st = "cancelling"
    /\ Outstanding("keepalive") = {}

\* C20: at most one reconnect flow is in flight: scheduled, or waiting out
\* its delay, or connecting.  Stated of the connections whose initial
\* settings request was written.
C20_OneReconnectFlow ==
    hist.settingsAt # -1 =>
    Cardinality({i \in TaskIds :
        /\ tasks[i].kind = "reconnect"
        /\ tasks[i].st \in {"scheduled", "running", "sleeping", "connecting"}}) <= 1

\* C21: whenever data_received has returned normally, the receive buffer
\* holds no complete block: it is empty, or it begins with an opening brace
\* and its brace depth stays above 0 to its end.
C21_BufferHoldsNoCompleteBlock ==
    (hist.rx > 0 /\ exc.name = None) =>
        \/ _buffer = <<>>
        \/ /\ _buffer[1] = LB
           /\ \A n \in 1..Len(_buffer) : Depth(_buffer, n) > 0

C21_Witness ==
    /\ hist.rx = 2
    /\ exc.name = None
    /\ Len(hist.decoded) = 1
    /\ status = "DOOR_OPEN"
    /\ _buffer = <<LB, LB>>

====
